---- MODULE Spec2Model ----
(***************************************************************************)
(* Model of class GRand (grand.h): a wrapper around std::mt19937 that      *)
(* defers nondeterministic seeding until the first request for output.     *)
(*                                                                         *)
(* An instance is the record [seed_needed, rng] of its two data members.   *)
(* Every member function is an operator from the instance (and, for the    *)
(* functions that call ck_seed, the value std::random_device would give)   *)
(* to the instance afterwards, the value returned and what the call did.   *)
(* The engine is a full-period generator over WordBits-bit words; the      *)
(* standard distributions are computed from its words the way libstdc++    *)
(* computes them.                                                          *)
(***************************************************************************)
EXTENDS Integers, Sequences, FiniteSets, TLC

\* ------------------------------------------------------------------ bounds
WordBits == 3            \* width of rng_type::result_type in the model
MaxSeed == 2             \* explicit seed values are -1 .. MaxSeed, and 42
MaxN == 2                \* arguments of i(n), operator()(n): -1 .. MaxN and two more
MaxEntropy == 1          \* std::random_device gives 0 .. MaxEntropy or a wide value
MaxCount == 2            \* cap of the event counters kept as history

\* --------------------------------------------------------------- constants
DefaultSeed == 5489      \* std::mt19937::default_seed, used by _rng()
CanonDraws == 2          \* words drawn by std::generate_canonical<double>
PDen == 4                \* probabilities p are given in quarters

WordMod == 2 ^ WordBits
CanonDen == WordMod ^ CanonDraws

SeedValues == ((-1) .. MaxSeed) \cup {42}
EntropyValues == (0 .. MaxEntropy) \cup {WordMod + 6}
IntArgs == ((-1) .. MaxN) \cup {WordMod, WordMod + 6}
DoubleArgs == {-2, 0, 1, 3}
ProbArgs == {-1, 0, 1, 2, 4, 5}

\* ------------------------------------------------------------ the engine
\* rng_type::result_type(s): conversion to the unsigned word type
result_type(s) == s % WordMod

\* rng_type::min(), rng_type::max()
min == 0
max == WordMod - 1

\* _rng.seed(w) / rng_type(w): the state the engine is put in by seed w
EngineSeed(w) == (3 * w + 1) % WordMod

\* _rng(): advance the engine and give its next word
EngineNext(x) == (5 * x + 3) % WordMod
Draw(x) == [rng |-> EngineNext(x), word |-> EngineNext(x)]

\* std::uniform_int_distribution<IntType>(0, urange)(_rng): rejection
\* sampling, scaling down a word or building the value from several words
RECURSIVE Downscale(_, _, _)
Downscale(x, past, scaling) ==
    LET dr == Draw(x)
    IN  IF dr.word - min >= past
        THEN Downscale(dr.rng, past, scaling)
        ELSE [rng |-> dr.rng, val |-> (dr.word - min) \div scaling]

RECURSIVE UniformInt(_, _)
UniformInt(x, urange) ==
    LET urngrange == max - min
    IN  IF urngrange > urange
        THEN LET uerange == urange + 1
                 scaling == urngrange \div uerange
             IN  Downscale(x, uerange * scaling, scaling)
        ELSE IF urngrange < urange
        THEN LET uerngrange == urngrange + 1
                 hi == UniformInt(x, urange \div uerngrange)
                 lo == Draw(hi.rng)
                 ret == uerngrange * hi.val + (lo.word - min)
             IN  IF ret > urange
                 THEN UniformInt(lo.rng, urange)
                 ELSE [rng |-> lo.rng, val |-> ret]
        ELSE LET dr == Draw(x) IN [rng |-> dr.rng, val |-> dr.word - min]

\* std::generate_canonical<double, 53>(_rng): CanonDraws words make the
\* numerator of a value in [0, 1) over the denominator CanonDen
RECURSIVE Canonical(_, _, _, _)
Canonical(x, k, sum, mult) ==
    IF k = 0
    THEN [rng |-> x, num |-> sum]
    ELSE LET dr == Draw(x)
         IN  Canonical(dr.rng, k - 1, sum + (dr.word - min) * mult, mult * WordMod)

\* std::uniform_real_distribution<double>(0.0, b)(_rng), in units 1/CanonDen
UniformReal(x, b) ==
    LET c == Canonical(x, CanonDraws, 0, 1)
    IN  [rng |-> c.rng, val |-> c.num * b]

\* std::bernoulli_distribution(p)(_rng), p = pq / PDen
Bernoulli(x, pq) ==
    LET c == Canonical(x, CanonDraws, 0, 1)
    IN  [rng |-> c.rng, val |-> c.num * PDen < pq * CanonDen]

\* ------------------------------------------------------------ class GRand
Void == [type |-> "void", val |-> 0]

\* GRand(): default ctor
GRand_default == [seed_needed |-> TRUE, rng |-> EngineSeed(result_type(DefaultSeed))]

\* GRand(SeedType s) that leaves the instance waiting for a seed
GRand_from_pending(s) == [seed_needed |-> TRUE, rng |-> EngineSeed(result_type(s))]

\* GRand(SeedType s): ctor from number
GRand_from(s) == [seed_needed |-> FALSE, rng |-> EngineSeed(result_type(s))]

\* seed() that does not ask for a new seed
seed_noop(g) == g

\* seed() that reseeds the engine at once
seed_at_once(g) == [seed_needed |-> TRUE, rng |-> EngineSeed(result_type(DefaultSeed))]

\* seed(): no parameters
seed(g) == [g EXCEPT !.seed_needed = TRUE]

\* seed(s) that seeds the engine and leaves _seed_needed as it was
seed_from_keeps_flag(g, s) == [g EXCEPT !.rng = EngineSeed(result_type(s))]

\* seed(s) that seeds the engine from another word than the ctor does
seed_from_other_word(g, s) ==
    [seed_needed |-> FALSE, rng |-> EngineSeed(result_type(s + 1))]

\* seed(SeedType s): seed from number
seed_from(g, s) == [seed_needed |-> FALSE, rng |-> EngineSeed(result_type(s))]

\* ck_seed() that seeds and leaves _seed_needed set
ck_seed_keeps_flag(g, e) ==
    IF ~g.seed_needed
    THEN [obj |-> g, reads |-> 0]
    ELSE [obj |-> [seed_needed |-> TRUE, rng |-> EngineSeed(result_type(e))],
          reads |-> 1]

\* ck_seed() that never seeds
ck_seed_never(g, e) == [obj |-> g, reads |-> 0]

\* ck_seed(): e is the value std::random_device()() gives if it is asked
ck_seed(g, e) ==
    IF ~g.seed_needed
    THEN [obj |-> g, reads |-> 0]
    ELSE [obj |-> [seed_needed |-> FALSE, rng |-> EngineSeed(result_type(e))],
          reads |-> 1]

\* what a member function that calls ck_seed gives back: the instance
\* afterwards, the value returned, the reads of the entropy source, whether
\* the engine was drawn from and the value of _seed_needed at that moment
NoDraw(c, ret) ==
    [obj |-> c.obj, ret |-> ret, reads |-> c.reads, drew |-> FALSE, pending |-> FALSE]
WithDraw(c, x, ret) ==
    [obj |-> [c.obj EXCEPT !.rng = x], ret |-> ret, reads |-> c.reads,
     drew |-> TRUE, pending |-> c.obj.seed_needed]

\* operator()(): next word of the engine
call(g, e) ==
    LET c == ck_seed(g, e)
        dr == Draw(c.obj.rng)
    IN  WithDraw(c, dr.rng, [type |-> "word", val |-> dr.word])

\* operator()(IntType n) whose range is [0, n]
call_n_inclusive(g, e, n) ==
    LET c == ck_seed(g, e)
    IN  IF n <= 0
        THEN NoDraw(c, [type |-> "int", val |-> 0])
        ELSE LET u == UniformInt(c.obj.rng, n)
             IN  WithDraw(c, u.rng, [type |-> "int", val |-> 0 + u.val])

\* operator()(IntType n)
call_n(g, e, n) ==
    LET c == ck_seed(g, e)
    IN  IF n <= 0
        THEN NoDraw(c, [type |-> "int", val |-> 0])
        ELSE LET u == UniformInt(c.obj.rng, n - 1)
             IN  WithDraw(c, u.rng, [type |-> "int", val |-> 0 + u.val])

\* i(int n)
i(g, e, n) == call_n(g, e, n)

\* d(double d) that samples for d == 0.0 as it does for d > 0.0
d_samples_zero(g, e, bound) ==
    LET c == ck_seed(g, e)
    IN  IF bound >= 0
        THEN LET u == UniformReal(c.obj.rng, bound)
             IN  WithDraw(c, u.rng, [type |-> "double", val |-> u.val])
        ELSE LET u == UniformReal(c.obj.rng, -bound)
             IN  WithDraw(c, u.rng, [type |-> "double", val |-> -u.val])

\* d(double d): the bound and the value are in units of 1/CanonDen
d(g, e, bound) ==
    LET c == ck_seed(g, e)
    IN  IF bound > 0
        THEN LET u == UniformReal(c.obj.rng, bound)
             IN  WithDraw(c, u.rng, [type |-> "double", val |-> u.val])
        ELSE IF bound < 0
        THEN LET u == UniformReal(c.obj.rng, -bound)
             IN  WithDraw(c, u.rng, [type |-> "double", val |-> -u.val])
        ELSE NoDraw(c, [type |-> "double", val |-> 0])

\* b(double p) that always asks the distribution
b_samples_always(g, e, pq) ==
    LET c == ck_seed(g, e)
        u == Bernoulli(c.obj.rng, pq)
    IN  WithDraw(c, u.rng, [type |-> "bool", val |-> u.val])

\* b(double p), p = pq / PDen
b(g, e, pq) ==
    LET c == ck_seed(g, e)
    IN  IF pq <= 0
        THEN NoDraw(c, [type |-> "bool", val |-> FALSE])
        ELSE IF pq >= PDen
        THEN NoDraw(c, [type |-> "bool", val |-> TRUE])
        ELSE LET u == Bernoulli(c.obj.rng, pq)
             IN  WithDraw(c, u.rng, [type |-> "bool", val |-> u.val])

\* ------------------------------------------------------------- the state
VARIABLES
    g,             \* the instance: [seed_needed, rng]
    result,        \* the value returned by the last call
    op,            \* the last call: [name, arg]
    pre,           \* the instance and the history just before the last call
    reads,         \* reads of std::random_device made by the last call
    entropy,       \* the value the last call read from it, -1 if none
    atDraw,        \* the last call's draw from the engine, if it made one
    lastSeedOp,    \* the most recent of GRand(), GRand(s), seed(), seed(s)
    sampledSince,  \* an output was requested since lastSeedOp
    sinceReq,      \* history since the most recent GRand() / seed()
    life,          \* history since construction
    h,             \* a second instance that is given the same calls
    result_h,      \* the value returned by the last call on h
    twin           \* history of the pair g, h

pair == <<h, result_h, twin>>
vars == <<g, result, op, pre, reads, entropy, atDraw, lastSeedOp,
          sampledSince, sinceReq, life, h, result_h, twin>>

Explicit == {"GRand_from", "seed_from"}
SeedKind(name) == IF name \in Explicit THEN "explicit" ELSE "lazy"
NoAtDraw == [drew |-> FALSE, pending |-> FALSE, seeded |-> FALSE]
NoPre == [seed_needed |-> FALSE, rng |-> 0, lastSeedOp |-> "none", sampledSince |-> FALSE]
NoTwin == [mode |-> "none", only_idb |-> TRUE, read_g |-> FALSE, read_h |-> FALSE,
           synced |-> TRUE]
PreNow == [seed_needed |-> g.seed_needed, rng |-> g.rng,
           lastSeedOp |-> lastSeedOp, sampledSince |-> sampledSince]

\* a seeding of the engine happened since construction and since the most
\* recent seed()
Seeded == lastSeedOp \in Explicit \/ sinceReq.entropy > 0

\* ------------------------------------------------- one instance: actions
\* g = GRand()
Construct ==
    /\ g' = GRand_default
    /\ result' = Void
    /\ op' = [name |-> "GRand", arg |-> 0]
    /\ pre' = NoPre
    /\ reads' = 0
    /\ entropy' = -1
    /\ atDraw' = NoAtDraw
    /\ lastSeedOp' = "GRand"
    /\ sampledSince' = FALSE
    /\ sinceReq' = [req |-> TRUE, first |-> "none", entropy |-> 0]
    /\ life' = [ctor |-> "GRand", first |-> "none", reqLater |-> FALSE, entropy |-> 0]

\* g = GRand(s)
ConstructFrom(s) ==
    /\ g' = GRand_from(s)
    /\ result' = Void
    /\ op' = [name |-> "GRand_from", arg |-> s]
    /\ pre' = NoPre
    /\ reads' = 0
    /\ entropy' = -1
    /\ atDraw' = NoAtDraw
    /\ lastSeedOp' = "GRand_from"
    /\ sampledSince' = FALSE
    /\ sinceReq' = [req |-> FALSE, first |-> "none", entropy |-> 0]
    /\ life' = [ctor |-> "GRand_from", first |-> "none", reqLater |-> FALSE, entropy |-> 0]

\* g.seed()
Seed ==
    /\ g' = seed(g)
    /\ result' = Void
    /\ op' = [name |-> "seed", arg |-> 0]
    /\ pre' = PreNow
    /\ reads' = 0
    /\ entropy' = -1
    /\ atDraw' = NoAtDraw
    /\ lastSeedOp' = "seed"
    /\ sampledSince' = FALSE
    /\ sinceReq' = [req |-> TRUE, first |-> "none", entropy |-> 0]
    /\ life' = [life EXCEPT !.reqLater = @ \/ life.first # "none"]

\* g.seed(s)
SeedFrom(s) ==
    /\ g' = seed_from(g, s)
    /\ result' = Void
    /\ op' = [name |-> "seed_from", arg |-> s]
    /\ pre' = PreNow
    /\ reads' = 0
    /\ entropy' = -1
    /\ atDraw' = NoAtDraw
    /\ lastSeedOp' = "seed_from"
    /\ sampledSince' = FALSE
    /\ UNCHANGED <<sinceReq, life>>

\* a call of a function that gives output: out is what the function did
Output(name, arg, e, out) ==
    /\ g' = out.obj
    /\ result' = out.ret
    /\ op' = [name |-> name, arg |-> arg]
    /\ pre' = PreNow
    /\ reads' = out.reads
    /\ entropy' = IF out.reads > 0 THEN e ELSE -1
    /\ atDraw' = [drew |-> out.drew, pending |-> out.pending,
                  seeded |-> Seeded \/ out.reads > 0]
    /\ sampledSince' = TRUE
    /\ sinceReq' = [sinceReq EXCEPT
                      !.first = IF @ = "none" THEN SeedKind(lastSeedOp) ELSE @,
                      !.entropy = IF @ + out.reads < MaxCount THEN @ + out.reads ELSE MaxCount]
    /\ life' = [life EXCEPT
                      !.first = IF @ = "none" THEN SeedKind(lastSeedOp) ELSE @,
                      !.entropy = IF @ + out.reads < MaxCount THEN @ + out.reads ELSE MaxCount]
    /\ UNCHANGED lastSeedOp

\* g()
Call == \E e \in EntropyValues : Output("call", 0, e, call(g, e))
\* g(n)
CallN == \E e \in EntropyValues, n \in IntArgs : Output("call_n", n, e, call_n(g, e, n))
\* g.i(n)
I == \E e \in EntropyValues, n \in IntArgs : Output("i", n, e, i(g, e, n))
\* g.d(x)
D == \E e \in EntropyValues, x \in DoubleArgs : Output("d", x, e, d(g, e, x * CanonDen))
\* g.b(p)
B == \E e \in EntropyValues, pq \in ProbArgs : Output("b", pq, e, b(g, e, pq))

\* g or h is left alone by the calls on the other
InitPairIdle ==
    /\ h = GRand_default
    /\ result_h = Void
    /\ twin = NoTwin

\* the state after construction, by GRand() or by GRand(s)
InitSingle(name, s, obj) ==
    /\ g = obj
    /\ result = Void
    /\ op = [name |-> name, arg |-> s]
    /\ pre = NoPre
    /\ reads = 0
    /\ entropy = -1
    /\ atDraw = NoAtDraw
    /\ lastSeedOp = name
    /\ sampledSince = FALSE
    /\ sinceReq = [req |-> name = "GRand", first |-> "none", entropy |-> 0]
    /\ life = [ctor |-> name, first |-> "none", reqLater |-> FALSE, entropy |-> 0]

Init ==
    /\ \/ InitSingle("GRand", 0, GRand_default)
       \/ \E s \in SeedValues : InitSingle("GRand_from", s, GRand_from(s))
    /\ InitPairIdle

Next ==
    \/ Construct /\ UNCHANGED pair
    \/ (\E s \in SeedValues : ConstructFrom(s)) /\ UNCHANGED pair
    \/ Seed /\ UNCHANGED pair
    \/ (\E s \in SeedValues : SeedFrom(s)) /\ UNCHANGED pair
    \/ Call /\ UNCHANGED pair
    \/ CallN /\ UNCHANGED pair
    \/ I /\ UNCHANGED pair
    \/ D /\ UNCHANGED pair
    \/ B /\ UNCHANGED pair

Spec == Init /\ [][Next]_vars

\* ------------------------------------------------ two instances: actions
\* The same calls are made on g and on h; std::random_device gives e1 to g
\* and e2 to h when they ask: the same value, or another one.
EntropyPairs ==
    {<<e, e>> : e \in EntropyValues} \cup
    {<<e, (WordMod + 6) - e>> : e \in EntropyValues}
history == <<pre, reads, entropy, atDraw, lastSeedOp, sampledSince, sinceReq, life>>

Outputs == {"call", "call_n", "i", "d", "b"}

TwinInit ==
    /\ \E s \in SeedValues, mode \in {"same_seed", "late_seed"} :
          /\ g = IF mode = "same_seed" THEN GRand_from(s) ELSE seed_from(GRand_default, s)
          /\ h = GRand_from(s)
          /\ op = [name |-> "GRand_from", arg |-> s]
          /\ twin = [mode |-> mode, only_idb |-> TRUE, read_g |-> FALSE, read_h |-> FALSE,
                     synced |-> TRUE]
    /\ result = Void
    /\ result_h = Void
    /\ pre = NoPre
    /\ reads = 0
    /\ entropy = -1
    /\ atDraw = NoAtDraw
    /\ lastSeedOp = "none"
    /\ sampledSince = FALSE
    /\ sinceReq = [req |-> FALSE, first |-> "none", entropy |-> 0]
    /\ life = [ctor |-> "none", first |-> "none", reqLater |-> FALSE, entropy |-> 0]

\* g.seed(); h.seed()
TwinSeed ==
    /\ g' = seed(g)
    /\ h' = seed(h)
    /\ result' = Void
    /\ result_h' = Void
    /\ op' = [name |-> "seed", arg |-> 0]
    /\ twin' = [twin EXCEPT !.only_idb = FALSE]
    /\ UNCHANGED history

\* g.seed(s); h.seed(s)
TwinSeedFrom(s) ==
    /\ g' = seed_from(g, s)
    /\ h' = seed_from(h, s)
    /\ result' = Void
    /\ result_h' = Void
    /\ op' = [name |-> "seed_from", arg |-> s]
    /\ twin' = [twin EXCEPT !.only_idb = FALSE]
    /\ UNCHANGED history

\* the same call for output on both
TwinOutput(name, arg, e1, e2, out_g, out_h) ==
    /\ g' = out_g.obj
    /\ h' = out_h.obj
    /\ result' = out_g.ret
    /\ result_h' = out_h.ret
    /\ op' = [name |-> name, arg |-> arg]
    /\ twin' = [twin EXCEPT
                  !.only_idb = @ /\ name \in {"i", "d", "b"},
                  !.read_g = @ \/ out_g.reads > 0,
                  !.read_h = @ \/ out_h.reads > 0,
                  !.synced = @ /\ e1 = e2]
    /\ UNCHANGED history

TwinCall ==
    \E ee \in EntropyPairs :
        TwinOutput("call", 0, ee[1], ee[2], call(g, ee[1]), call(h, ee[2]))
TwinCallN ==
    \E ee \in EntropyPairs, n \in IntArgs :
        TwinOutput("call_n", n, ee[1], ee[2], call_n(g, ee[1], n), call_n(h, ee[2], n))
TwinI ==
    \E ee \in EntropyPairs, n \in IntArgs :
        TwinOutput("i", n, ee[1], ee[2], i(g, ee[1], n), i(h, ee[2], n))
TwinD ==
    \E ee \in EntropyPairs, x \in DoubleArgs :
        TwinOutput("d", x, ee[1], ee[2], d(g, ee[1], x * CanonDen), d(h, ee[2], x * CanonDen))
TwinB ==
    \E ee \in EntropyPairs, pq \in ProbArgs :
        TwinOutput("b", pq, ee[1], ee[2], b(g, ee[1], pq), b(h, ee[2], pq))

TwinNext ==
    \/ TwinSeed
    \/ \E s \in SeedValues : TwinSeedFrom(s)
    \/ TwinCall
    \/ TwinCallN
    \/ TwinI
    \/ TwinD
    \/ TwinB

TwinSpec == TwinInit /\ [][TwinNext]_vars

\* ------------------------------------------------------------ properties
TypeOK ==
    /\ g \in [seed_needed : BOOLEAN, rng : 0 .. (WordMod - 1)]
    /\ h \in [seed_needed : BOOLEAN, rng : 0 .. (WordMod - 1)]
    /\ reads \in 0 .. 1
    /\ sinceReq.entropy \in 0 .. MaxCount

\* the instance just before the last call
PreObj == [seed_needed |-> pre.seed_needed, rng |-> pre.rng]

\* the call name(arg) made on the instance obj
Apply(name, arg, obj, e) ==
    CASE name = "call" -> call(obj, e)
      [] name = "call_n" -> call_n(obj, e, arg)
      [] name = "i" -> i(obj, e, arg)
      [] name = "d" -> d(obj, e, arg * CanonDen)
      [] name = "b" -> b(obj, e, arg)

\* C1 as stated: _seed_needed is true exactly when no seed(s) / GRand(s)
\* came after the most recent GRand() / seed().
C1_Original == g.seed_needed <=> lastSeedOp \notin Explicit

\* C1 amended: _seed_needed is true exactly when neither a seed(s) / GRand(s)
\* nor a call for output came after the most recent GRand() / seed().
C1_Amended == g.seed_needed <=> (lastSeedOp \notin Explicit /\ ~sampledSince)

C1_Witness ==
    /\ lastSeedOp = "seed"
    /\ sampledSince
    /\ op.name \in Outputs
    /\ ~g.seed_needed

\* C2 as stated: d(0.0) returns 0.0, reads no entropy and leaves the engine
\* and _seed_needed as they were, in every state of the instance.
C2_Original ==
    (op.name = "d" /\ op.arg = 0) =>
        /\ result = [type |-> "double", val |-> 0]
        /\ reads = 0
        /\ g = PreObj

\* C2 amended: d(0.0) returns 0.0 and draws nothing from the engine; when
\* _seed_needed is false it reads no entropy and leaves the instance as it
\* was; when _seed_needed is true it reads the entropy source once, seeds the
\* engine from that value and clears _seed_needed.
C2_Amended ==
    (op.name = "d" /\ op.arg = 0) =>
        /\ result = [type |-> "double", val |-> 0]
        /\ ~atDraw.drew
        /\ IF pre.seed_needed
           THEN reads = 1 /\ g = GRand_from(entropy)
           ELSE reads = 0 /\ g = PreObj

C2_Witness ==
    /\ op.name = "d" /\ op.arg = 0
    /\ pre.seed_needed
    /\ reads = 1
    /\ g.rng # pre.rng

\* C3 as stated: b(p) with p <= 0 returns false and with p >= 1 returns
\* true, reading no entropy and leaving the engine as it was, in every state
\* of the instance.
C3_Original ==
    (op.name = "b" /\ (op.arg <= 0 \/ op.arg >= PDen)) =>
        /\ result = [type |-> "bool", val |-> op.arg >= PDen]
        /\ reads = 0
        /\ g.rng = pre.rng

\* C3 amended: b(p) with p <= 0 returns false and with p >= 1 returns true
\* and draws nothing from the engine; when _seed_needed is false it reads no
\* entropy and leaves the instance as it was; when _seed_needed is true it
\* reads the entropy source once, seeds the engine from that value and clears
\* _seed_needed.
C3_Amended ==
    (op.name = "b" /\ (op.arg <= 0 \/ op.arg >= PDen)) =>
        /\ result = [type |-> "bool", val |-> op.arg >= PDen]
        /\ ~atDraw.drew
        /\ IF pre.seed_needed
           THEN reads = 1 /\ g = GRand_from(entropy)
           ELSE reads = 0 /\ g = PreObj

C3_Witness ==
    /\ op.name = "b" /\ op.arg >= PDen
    /\ pre.seed_needed
    /\ reads = 1
    /\ g.rng # pre.rng
    /\ result.val = TRUE

\* C4 as stated: once a call for output has followed a GRand() / seed(),
\* exactly one seeding from the entropy source happened since that
\* GRand() / seed(), and never more than one.
C4_Original ==
    /\ sinceReq.entropy <= 1
    /\ (sinceReq.req /\ sinceReq.first # "none") => sinceReq.entropy = 1

\* C4 amended: since the most recent GRand() / seed() there is never more
\* than one seeding from the entropy source; there is none before the first
\* call for output; from that call on there is exactly one if no seed(s) came
\* between the GRand() / seed() and that call, and none if one did.
C4_Amended ==
    /\ sinceReq.entropy <= 1
    /\ sinceReq.first = "none" => sinceReq.entropy = 0
    /\ (sinceReq.req /\ sinceReq.first = "lazy") => sinceReq.entropy = 1
    /\ sinceReq.first = "explicit" => sinceReq.entropy = 0

C4_Witness ==
    /\ sinceReq.req
    /\ sinceReq.first = "lazy"
    /\ sinceReq.entropy = 1
    /\ op.name \in Outputs
    /\ reads = 0
    /\ pre.sampledSince

\* C5: a call that returns a value derived from the engine (operator()(),
\* i(n) and operator()(n) with n > 0, d(x) with x # 0, b(p) with 0 < p < 1)
\* draws from the engine with _seed_needed false and after a seeding (from a
\* given value or from the entropy source) that came after construction and
\* after the most recent seed().
EngineDerived ==
    \/ op.name = "call"
    \/ op.name \in {"i", "call_n"} /\ op.arg > 0
    \/ op.name = "d" /\ op.arg # 0
    \/ op.name = "b" /\ op.arg > 0 /\ op.arg < PDen

C5_SeededBeforeOutput ==
    /\ EngineDerived => atDraw.drew
    /\ atDraw.drew => (~atDraw.pending /\ atDraw.seeded /\ ~g.seed_needed)

C5_Witness ==
    /\ EngineDerived
    /\ atDraw.drew
    /\ pre.seed_needed
    /\ pre.lastSeedOp = "seed"
    /\ reads = 1

\* C6: an instance made by GRand() whose first call for output comes after a
\* seed(s), with no seed() after that seed(s), never reads the entropy source.
C6_NoEntropyAfterExplicitSeed ==
    (life.ctor = "GRand" /\ life.first = "explicit" /\ ~life.reqLater)
        => life.entropy = 0

C6_Witness ==
    /\ life.ctor = "GRand"
    /\ life.first = "explicit"
    /\ ~life.reqLater
    /\ atDraw.drew
    /\ pre.sampledSince
    /\ lastSeedOp = "seed_from"

\* C7 as stated: GRand() followed by seed(s), and GRand(s), stay in the same
\* state and return the same values under every sequence of calls for output
\* and of seed() / seed(s) made on both.
C7_Original ==
    twin.mode = "late_seed" => (g = h /\ result = result_h)

\* C7 amended: GRand() followed by seed(s), and GRand(s), are in the same
\* state, and stay in the same state and return the same values under every
\* sequence of calls for output and of seed() / seed(s) made on both in which
\* the entropy source gives both the same values.
C7_Amended ==
    (twin.mode = "late_seed" /\ twin.synced) => (g = h /\ result = result_h)

C7_Witness ==
    /\ twin.mode = "late_seed"
    /\ twin.synced
    /\ twin.read_g
    /\ op.name = "i" /\ op.arg > 1
    /\ g = h

\* C8: two instances made by GRand(s) with the same s, given the same calls
\* of i, d and b, return the same values and are in the same state after
\* every call, and neither reads the entropy source.
C8_SameSeedSameSequence ==
    (twin.mode = "same_seed" /\ twin.only_idb) =>
        /\ g = h
        /\ result = result_h
        /\ ~twin.read_g
        /\ ~twin.read_h

C8_Witness ==
    /\ twin.mode = "same_seed"
    /\ twin.only_idb
    /\ ~twin.synced
    /\ op.name = "d" /\ op.arg = 3
    /\ result.val > 0

\* C9: seed() reads no entropy and leaves the engine as it was; the first
\* call for output after it reads the entropy source once and seeds the
\* engine from that value before it draws, so that the instance and the
\* value returned are those of the same call on GRand(the value read).
C9_SeedDefersToNextOutput ==
    /\ op.name = "seed" => (reads = 0 /\ g.rng = pre.rng /\ g.seed_needed)
    /\ (op.name \in Outputs /\ pre.lastSeedOp = "seed" /\ ~pre.sampledSince) =>
          /\ reads = 1
          /\ g = Apply(op.name, op.arg, GRand_from(entropy), entropy).obj
          /\ result = Apply(op.name, op.arg, GRand_from(entropy), entropy).ret

C9_Witness ==
    /\ life.ctor = "GRand_from"
    /\ op.name = "call"
    /\ pre.lastSeedOp = "seed"
    /\ ~pre.sampledSince
    /\ pre.seed_needed
    /\ reads = 1
    /\ life.first = "explicit"

====
